---- MODULE Spec2Model ----
(***************************************************************************)
(* The read path of the PKI secrets engine, builtin/logical/pki/           *)
(* path_fetch.go: pathFetchCertList, pathFetchCertListDetailed and         *)
(* pathFetchRead, over a key/value storage with optional read-only         *)
(* snapshots.                                                              *)
(*                                                                         *)
(* Strings that are compared bytewise (serials, storage keys, cursors) are *)
(* sequences of one-character strings; Alphabet gives the byte order.      *)
(***************************************************************************)
EXTENDS Integers, Sequences, FiniteSets, TLC

VARIABLES
    \* the storage: certs/<serial>, revoked/<serial>, the last-generated
    \* markers of the three resource classes, the configured issuer
    certs, revoked, markers, issuer, crl,
    \* a client paging through pathFetchCertList
    pgPc, pgLimit, pgAfter, pgPages,
    \* one pathFetchCertListDetailed call and the writers beside it
    ldPc, ldAfter, ldLimit, transactional, reqStorage, snapshot, txn, rollbacks,
    entries, ldI, responseKeys, responseInfo, ldResult, beginStore, writes,
    \* one pathFetchRead call: the request, the storage fault met, the result
    rdReq, rdFault, rdResult

storeVars == <<certs, revoked, markers, issuer, crl>>
pgVars == <<pgPc, pgLimit, pgAfter, pgPages>>
ldVars == <<ldPc, ldAfter, ldLimit, transactional, reqStorage, snapshot, txn, rollbacks,
            entries, ldI, responseKeys, responseInfo, ldResult, beginStore, writes>>
rdVars == <<rdReq, rdFault, rdResult>>
vars == <<storeVars, pgVars, ldVars, rdVars>>

\* ------------------------------------------------------------------ bounds

\* largest page limit a caller passes (limits range over 0..MaxLimit)
MaxLimit == 2
\* writes the concurrent writers make while one detailed listing runs
MaxWrites == 2
\* marker and If-Modified-Since times range over 1..MaxTime
MaxTime == 2
\* certificates in the configured issuer's chain range over 0..MaxChain
MaxChain == 1

\* ------------------------------------------------------------ byte strings

\* The characters of serials and cursors, in byte (ASCII) order.
Alphabet == <<"-", "0", "1", "2", "3", ":", "A", "B", "a", "b", "c">>

Rank(c) == CHOOSE i \in DOMAIN Alphabet : Alphabet[i] = c

\* bytewise a < b, as the storage orders its keys
LexLess(a, b) ==
    \E i \in 1..Len(b) :
        /\ \A j \in 1..(i - 1) : j <= Len(a) /\ a[j] = b[j]
        /\ \/ i = Len(a) + 1
           \/ i <= Len(a) /\ Rank(a[i]) < Rank(b[i])

\* The serials under certs/ and revoked/ (canonical form: lower-case hex
\* without separators), and the bytes of each.
Keys == {"0a", "1a2b", "1a3c", "ca"}

Bytes(k) ==
    CASE k = "0a"   -> <<"0", "a">>
      [] k = "1a2b" -> <<"1", "a", "2", "b">>
      [] k = "1a3c" -> <<"1", "a", "3", "c">>
      [] k = "ca"   -> <<"c", "a">>

\* the serials the listings range over
ListKeys == {"0a", "1a2b", "1a3c"}

\* denormalizeSerial: the display form, ":" between the bytes of the serial
RECURSIVE denormalizeSerial(_)
denormalizeSerial(b) ==
    IF Len(b) <= 2 THEN b
    ELSE <<b[1], b[2], ":">> \o denormalizeSerial(SubSeq(b, 3, Len(b)))

\* ----------------------------------------------------------------- storage

Absent == "absent"

\* stored certificate values: two certificates that parse, one that does not
CertValues == {"derA", "derB", "garbage"}

\* keys of store st under certs/, in storage order
RECURSIVE SortedKeys(_)
SortedKeys(S) ==
    IF S = {} THEN <<>>
    ELSE LET m == CHOOSE k \in S : \A o \in S \ {k} : LexLess(Bytes(k), Bytes(o))
         IN  <<m>> \o SortedKeys(S \ {m})

Take(s, n) == IF n >= 0 /\ n < Len(s) THEN SubSeq(s, 1, n) ELSE s

\* Storage.ListPage(ctx, "certs/", after, limit): the keys below the prefix
\* that sort strictly after the cursor, in order, at most limit of them
\* (limit < 0: all); the keys come back without the prefix.
ListPage(st, after, limit) ==
    Take(SortedKeys({k \in DOMAIN st : st[k] # Absent /\ LexLess(after, Bytes(k))}),
         limit)

\* Storage.Get(ctx, "certs/" + key) for a key the listing returned
Get(st, k) == st[k]

\* ------------------------------------------------- states before any call

NoCerts == [k \in Keys |-> Absent]

PgIdle ==
    /\ pgPc = "idle"
    /\ pgLimit = 0
    /\ pgAfter = <<>>
    /\ pgPages = <<>>

NoResult == [kind |-> "none", keys |-> <<>>, info |-> <<>>, what |-> "", serial |-> <<>>]

LdIdle ==
    /\ ldPc = "idle"
    /\ ldAfter = <<>>
    /\ ldLimit = 0
    /\ transactional = FALSE
    /\ reqStorage = "original"
    /\ snapshot = NoCerts
    /\ txn = "none"
    /\ rollbacks = 0
    /\ entries = <<>>
    /\ ldI = 0
    /\ responseKeys = <<>>
    /\ responseInfo = <<>>
    /\ ldResult = NoResult
    /\ beginStore = NoCerts
    /\ writes = 0

NoRequest == [path |-> <<>>, ims |-> 0]

NoResponse ==
    [kind |-> "none", err |-> FALSE, errMsg |-> "", contentType |-> "", body |-> <<>>,
     status |-> 0, certificate |-> <<>>, revocation_time |-> 0,
     revocation_time_rfc3339 |-> "", issuer_id |-> "", ca_chain |-> <<>>,
     notModified |-> FALSE, reads |-> {}]

RdIdle ==
    /\ rdReq = NoRequest
    /\ rdFault = "none"
    /\ rdResult = NoResponse

\* the resource classes of the conditional gate
Classes == {"ca", "crl", "delta-crl"}

StoreEmpty ==
    /\ revoked = [k \in Keys |-> Absent]
    /\ markers = [c \in Classes |-> 1]
    /\ issuer = [configured |-> FALSE, chain |-> 0]
    /\ crl = [c \in {"crl", "delta-crl"} |-> Absent]

\* ------------------------------------------------------ pathFetchCertList

\* limit <= 0 means no limit
EffectiveLimit(limit) == IF limit <= 0 THEN -1 ELSE limit

Denormalized(ks) == [i \in 1..Len(ks) |-> denormalizeSerial(Bytes(ks[i]))]

\* pathFetchCertList: one ListPage read; listErr is the storage failing it
pathFetchCertList(st, after, limit, listErr) ==
    IF listErr THEN [err |-> TRUE, keys |-> <<>>]
    ELSE [err |-> FALSE,
          keys |-> Denormalized(ListPage(st, after, EffectiveLimit(limit)))]

\* The client's call with cursor `after`: it pages on while pages come back
\* non-empty; a limit <= 0 asks for everything in one page.
PageCall(after, limit, listErr) ==
    LET r == pathFetchCertList(certs, after, limit, listErr)
    IN  /\ pgAfter' = after
        /\ pgLimit' = limit
        /\ pgPages' = IF r.err THEN pgPages ELSE Append(pgPages, r.keys)
        /\ pgPc' = IF r.err THEN "failed"
                   ELSE IF limit <= 0 \/ r.keys = <<>> THEN "done"
                   ELSE "paging"
        /\ UNCHANGED <<storeVars, ldVars, rdVars>>

PageFirst ==
    /\ pgPc = "idle"
    /\ \E limit \in 0..MaxLimit, listErr \in BOOLEAN : PageCall(<<>>, limit, listErr)

\* the next page: the cursor is the last serial of the previous page, as returned
PageNext ==
    /\ pgPc = "paging"
    /\ LET last == pgPages[Len(pgPages)]
       IN  \E listErr \in BOOLEAN : PageCall(last[Len(last)], pgLimit, listErr)

ListInit ==
    /\ certs \in [Keys -> {Absent, "derA"}]
    /\ StoreEmpty
    /\ PgIdle
    /\ LdIdle
    /\ RdIdle

ListNext == PageFirst \/ PageNext

ListSpec == ListInit /\ [][ListNext]_vars

RECURSIVE Concat(_)
Concat(pages) == IF pages = <<>> THEN <<>> ELSE Head(pages) \o Concat(Tail(pages))

Stored(st) == {k \in DOMAIN st : st[k] # Absent}

\* C8: with the store unchanged, paging with a fixed limit, each call's cursor
\* the last serial of the previous page in display form, returns every stored
\* serial exactly once, in storage order, at most limit per page; a limit <= 0
\* returns them all in one page.
C8_PagingReturnsEverySerialOnce ==
    pgPc = "done" =>
        /\ Concat(pgPages) = Denormalized(SortedKeys(Stored(certs)))
        /\ \A i \in 1..Len(pgPages) : pgLimit > 0 => Len(pgPages[i]) <= pgLimit
        /\ pgLimit <= 0 => Len(pgPages) = 1

\* ------------------------------------------------ pathFetchCertListDetailed

\* What x509.ParseCertificate reads out of a stored value that parses: the
\* subject, the issuer, the public key, the validity, the DNS names.
CertFacts(v) ==
    IF v = "derA"
    THEN [common_name |-> "a.example", issuer |-> "CN=root", pub |-> "rsa", size |-> 256,
          not_before |-> 1, not_after |-> 2, dns |-> 6]
    ELSE [common_name |-> "b.example", issuer |-> "CN=root", pub |-> "ecdsa", size |-> 384,
          not_before |-> 1, not_after |-> 3, dns |-> 1]

ParseCertificate(v) ==
    IF v \in {"derA", "derB"} THEN [ok |-> TRUE, cert |-> CertFacts(v)]
    ELSE [ok |-> FALSE, cert |-> CertFacts("derA")]

\* DNS names a key_info entry keeps
MaxDNSNames == 5

\* the key_info entry of a parsed certificate
KeyInfo(c) ==
    [common_name |-> c.common_name,
     issuer      |-> c.issuer,
     key_type    |-> CASE c.pub = "rsa" -> "rsa"
                       [] c.pub = "ecdsa" -> "ec"
                       [] c.pub = "ed25519" -> "ed25519"
                       [] OTHER -> "unknown",
     key_bits    |-> CASE c.pub = "rsa" -> c.size * 8
                       [] c.pub = "ecdsa" -> c.size
                       [] c.pub = "ed25519" -> 256
                       [] OTHER -> 0,
     not_after   |-> c.not_after,
     not_before  |-> c.not_before,
     dns_names   |-> IF c.dns > MaxDNSNames THEN MaxDNSNames ELSE c.dns]

\* the cursors a detailed listing is called with
Cursors == {<<>>, <<"0", "a">>}

\* req.Storage after the snapshot block: the read-only transaction when the
\* storage is transactional and BeginReadOnlyTx succeeded
\* (variant: the transaction is begun but req.Storage keeps the original storage)
InstallStorageNoSnapshot(isTxn) == "original"
InstallStorage(isTxn) == IF isTxn THEN "txn" ELSE "original"

\* what a read through req.Storage sees
View == IF reqStorage = "txn" THEN snapshot ELSE certs

\* defer readOnlyTxn.Rollback(ctx): runs as the call returns, on any exit
\* (variant: the rollback is issued before the final return only, not deferred)
DeferredOnSuccessOnly(t, exit) ==
    IF t = "open" /\ exit = "ok" THEN [txn |-> "rolledback", issued |-> 1]
    ELSE [txn |-> t, issued |-> 0]
Deferred(t, exit) ==
    IF t = "open" THEN [txn |-> "rolledback", issued |-> 1]
    ELSE [txn |-> t, issued |-> 0]

\* return nil, err
ErrResult(what) ==
    [kind |-> "err", keys |-> <<>>, info |-> <<>>, what |-> what, serial |-> <<>>]

\* return logical.ErrorResponse(...), nil: the message names the serial
\* (variant: the error response carries what was collected so far)
ErrorResponsePartial(what, serial) ==
    [kind |-> "errorResponse", keys |-> responseKeys, info |-> responseInfo,
     what |-> what, serial |-> serial]
ErrorResponse(what, serial) ==
    [kind |-> "errorResponse", keys |-> <<>>, info |-> <<>>, what |-> what, serial |-> serial]

\* return logical.ListResponseWithInfo(responseKeys, responseInfo), nil
ListResponseWithInfo(keys, info) ==
    [kind |-> "ok", keys |-> keys, info |-> info, what |-> "", serial |-> <<>>]

\* the call returns `result` on exit path `exit`; the deferred rollback runs
LdExit(exit, result) ==
    LET d == Deferred(txn, exit)
    IN  /\ ldPc' = "done"
        /\ ldResult' = result
        /\ txn' = d.txn
        /\ rollbacks' = rollbacks + d.issued

\* the call starts: arguments, then the read-only transaction if available
LdCall ==
    /\ ldPc = "idle"
    /\ \E after \in Cursors, limit \in 0..MaxLimit, isTxn \in BOOLEAN, beginErr \in BOOLEAN :
        /\ beginErr => isTxn
        /\ ldAfter' = after
        /\ ldLimit' = limit
        /\ transactional' = isTxn
        /\ beginStore' = certs
        /\ IF beginErr
           THEN /\ LdExit("begin", ErrResult("begin"))
                /\ UNCHANGED <<reqStorage, snapshot>>
           ELSE /\ ldPc' = "list"
                /\ txn' = IF isTxn THEN "open" ELSE "none"
                /\ snapshot' = IF isTxn THEN certs ELSE snapshot
                /\ reqStorage' = InstallStorage(isTxn)
                /\ UNCHANGED <<ldResult, rollbacks>>
    /\ UNCHANGED <<entries, ldI, responseKeys, responseInfo, writes>>
    /\ UNCHANGED <<storeVars, pgVars, rdVars>>

\* entries, err := req.Storage.ListPage(ctx, "certs/", after, limit)
LdList ==
    /\ ldPc = "list"
    /\ \E listErr \in BOOLEAN :
        IF listErr
        THEN /\ LdExit("list", ErrResult("list"))
             /\ UNCHANGED <<entries, ldI>>
        ELSE /\ entries' = ListPage(View, ldAfter, EffectiveLimit(ldLimit))
             /\ ldI' = 1
             /\ ldPc' = "loop"
             /\ UNCHANGED <<ldResult, txn, rollbacks>>
    /\ UNCHANGED <<ldAfter, ldLimit, transactional, reqStorage, snapshot,
                   responseKeys, responseInfo, beginStore, writes>>
    /\ UNCHANGED <<storeVars, pgVars, rdVars>>

\* one turn of the loop: Get, denormalize, append the key, parse, add the info
LdGet ==
    /\ ldPc = "loop"
    /\ ldI <= Len(entries)
    /\ \E getErr \in BOOLEAN :
        LET k == entries[ldI]
            entry == Get(View, k)
            shown == denormalizeSerial(Bytes(k))
            parsed == ParseCertificate(entry)
        IN  IF getErr
            THEN /\ LdExit("get", ErrResult("get"))
                 /\ UNCHANGED <<ldI, responseKeys, responseInfo>>
            ELSE IF entry = Absent
            THEN /\ LdExit("retrieve", ErrorResponse("retrieve", Bytes(k)))
                 /\ UNCHANGED <<ldI, responseKeys, responseInfo>>
            ELSE IF ~parsed.ok
            THEN /\ LdExit("parse", ErrorResponse("parse", shown))
                 /\ responseKeys' = Append(responseKeys, shown)
                 /\ UNCHANGED <<ldI, responseInfo>>
            ELSE /\ responseKeys' = Append(responseKeys, shown)
                 /\ responseInfo' = Append(responseInfo, <<shown, KeyInfo(parsed.cert)>>)
                 /\ ldI' = ldI + 1
                 /\ UNCHANGED <<ldPc, ldResult, txn, rollbacks>>
    /\ UNCHANGED <<ldAfter, ldLimit, transactional, reqStorage, snapshot, entries,
                   beginStore, writes>>
    /\ UNCHANGED <<storeVars, pgVars, rdVars>>

\* req.Storage = originalStorage
\* (variant: the assignment is missing)
RestoredStorageKept(current) == current
RestoredStorage(current) == "original"

\* after the loop: req.Storage = originalStorage, then the list response
LdReturn ==
    /\ ldPc = "loop"
    /\ ldI > Len(entries)
    /\ reqStorage' = RestoredStorage(reqStorage)
    /\ LdExit("ok", ListResponseWithInfo(responseKeys, responseInfo))
    /\ UNCHANGED <<ldAfter, ldLimit, transactional, snapshot, entries, ldI,
                   responseKeys, responseInfo, beginStore, writes>>
    /\ UNCHANGED <<storeVars, pgVars, rdVars>>

\* a concurrent writer adds or overwrites certs/<k> while the listing runs
WriterPut ==
    /\ ldPc \in {"list", "loop"}
    /\ writes < MaxWrites
    /\ \E k \in ListKeys, v \in CertValues :
        /\ certs[k] # v
        /\ certs' = [certs EXCEPT ![k] = v]
    /\ writes' = writes + 1
    /\ UNCHANGED <<revoked, markers, issuer, crl, pgVars, rdVars>>
    /\ UNCHANGED <<ldPc, ldAfter, ldLimit, transactional, reqStorage, snapshot, txn,
                   rollbacks, entries, ldI, responseKeys, responseInfo, ldResult, beginStore>>

\* a concurrent writer deletes certs/<k> while the listing runs
WriterDelete ==
    /\ ldPc \in {"list", "loop"}
    /\ writes < MaxWrites
    /\ \E k \in ListKeys :
        /\ certs[k] # Absent
        /\ certs' = [certs EXCEPT ![k] = Absent]
    /\ writes' = writes + 1
    /\ UNCHANGED <<revoked, markers, issuer, crl, pgVars, rdVars>>
    /\ UNCHANGED <<ldPc, ldAfter, ldLimit, transactional, reqStorage, snapshot, txn,
                   rollbacks, entries, ldI, responseKeys, responseInfo, ldResult, beginStore>>

DetailedInit ==
    /\ certs \in {st \in [Keys -> {Absent} \cup CertValues] : st["ca"] = Absent}
    /\ StoreEmpty
    /\ PgIdle
    /\ LdIdle
    /\ RdIdle

DetailedNext == LdCall \/ LdList \/ LdGet \/ LdReturn \/ WriterPut \/ WriterDelete

DetailedSpec == DetailedInit /\ [][DetailedNext]_vars

\* The detailed listing of store st computed in one piece, no storage call
\* failing: the page, then its keys and key_info, or the first unparsable entry.
DetailedOf(st, after, limit) ==
    LET page == ListPage(st, after, EffectiveLimit(limit))
        shown(i) == denormalizeSerial(Bytes(page[i]))
        bad == {i \in 1..Len(page) : ~ParseCertificate(st[page[i]]).ok}
    IN  IF bad # {}
        THEN LET i == CHOOSE x \in bad : \A y \in bad : x <= y
             IN  [kind |-> "errorResponse", keys |-> <<>>, info |-> <<>>,
                  what |-> "parse", serial |-> shown(i)]
        ELSE [kind |-> "ok",
              keys |-> [i \in 1..Len(page) |-> shown(i)],
              info |-> [i \in 1..Len(page) |->
                          <<shown(i), KeyInfo(ParseCertificate(st[page[i]]).cert)>>],
              what |-> "", serial |-> <<>>]

\* C1: on a storage with read-only snapshots, whatever the writers do between
\* the ListPage read and the Get reads, the call returns what the store held
\* when the snapshot was begun, and no concurrent delete makes it fail with a
\* missing entry.
C1_SnapshotIsolation ==
    (ldPc = "done" /\ transactional) =>
        /\ ldResult.what # "retrieve"
        /\ ldResult.what \notin {"begin", "list", "get"} =>
               ldResult = DetailedOf(beginStore, ldAfter, ldLimit)

\* a listed entry was deleted and another overwritten while the call ran, and
\* the call returned both as they were
C1_Witness ==
    /\ ldPc = "done" /\ transactional /\ ldResult.kind = "ok"
    /\ Len(entries) >= 2
    /\ \E k \in ListKeys : beginStore[k] # Absent /\ certs[k] = Absent
    /\ \E k \in ListKeys : beginStore[k] = "derA" /\ certs[k] = "derB"

\* C7: a read-only transaction that was begun is rolled back exactly once by
\* the time the call returns, on every exit path; none is issued when
\* BeginReadOnlyTx failed or the storage is not transactional, nor before the
\* call returns; the transaction is never committed.
C7_RollbackExactlyOnce ==
    /\ txn # "committed"
    /\ ldPc # "done" => rollbacks = 0 /\ txn \in {"none", "open"}
    /\ ldPc = "done" =>
          IF transactional /\ ldResult.what # "begin"
          THEN txn = "rolledback" /\ rollbacks = 1
          ELSE txn = "none" /\ rollbacks = 0

\* a Get failed under an open transaction, and the transaction was rolled back
C7_Witness ==
    /\ ldPc = "done" /\ transactional
    /\ ldResult.what = "get" /\ ldI >= 2
    /\ txn = "rolledback" /\ rollbacks = 1

\* C9: the call returns either a success whose keys are the serials of the
\* listed page, in order, each with its key_info entry, or an error that
\* carries no keys and no key_info; a parse failure names the serial that
\* failed, wherever in the page it is, and a success means every entry parsed.
C9_AllOrNothing ==
    ldPc = "done" =>
        /\ \/ /\ ldResult.kind = "ok"
              /\ ldResult.keys = Denormalized(entries)
              /\ Len(ldResult.info) = Len(ldResult.keys)
              /\ \A i \in 1..Len(ldResult.keys) : ldResult.info[i][1] = ldResult.keys[i]
           \/ /\ ldResult.kind \in {"err", "errorResponse"}
              /\ ldResult.keys = <<>>
              /\ ldResult.info = <<>>
        /\ ldResult.what = "parse" =>
              /\ ldI <= Len(entries)
              /\ ldResult.serial = denormalizeSerial(Bytes(entries[ldI]))
        /\ (ldResult.kind = "ok" /\ transactional) =>
              \A i \in 1..Len(entries) : ParseCertificate(snapshot[entries[i]]).ok

\* the second entry of the page failed to parse after the first was processed
C9_Witness ==
    /\ ldPc = "done" /\ ldResult.what = "parse"
    /\ ldI = 2 /\ Len(responseKeys) = 2 /\ Len(responseInfo) = 1
    /\ ldResult.keys = <<>>

\* C11: req.Storage is put back to the original storage on the successful
\* return only: after an early return taken with the snapshot installed
\* (ListPage error, Get error, missing entry, parse failure) it still is the
\* snapshot handle, which has been rolled back; on a storage that is not
\* transactional, and when BeginReadOnlyTx fails, it never changes.
C11_StorageRestoredOnSuccessOnly ==
    /\ ~transactional => reqStorage = "original"
    /\ ldPc \in {"list", "loop"} =>
          reqStorage = (IF transactional THEN "txn" ELSE "original")
    /\ ldPc = "done" =>
          IF ldResult.kind = "ok" \/ ldResult.what = "begin" \/ ~transactional
          THEN reqStorage = "original"
          ELSE /\ ldResult.what \in {"list", "get", "retrieve", "parse"}
               /\ reqStorage = "txn"
               /\ txn = "rolledback" /\ rollbacks = 1

\* a parse failure returned with the rolled-back snapshot still in req.Storage
C11_Witness ==
    /\ ldPc = "done" /\ transactional
    /\ ldResult.what = "parse"
    /\ reqStorage = "txn" /\ txn = "rolledback"

\* ------------------------------------------------------------ pathFetchRead

\* Request paths are sequences of segments: "cert/ca/raw" is <<"cert", "ca", "raw">>.
\* The serials callers put in cert/<serial>: one in display form, upper case,
\* whose certificate may be stored, and one that is never stored.
SerialInputs == {"1A:2B", "0a"}

InputBytes(s) ==
    CASE s = "1A:2B" -> <<"1", "A", ":", "2", "B">>
      [] s = "0a"    -> <<"0", "a">>

FixedPaths ==
    {<<"ca">>, <<"ca", "pem">>, <<"cert", "ca">>, <<"cert", "ca", "raw">>,
     <<"cert", "ca", "raw", "pem">>, <<"ca_chain">>, <<"cert", "ca_chain">>,
     <<"crl">>, <<"crl", "pem">>, <<"crl", "delta">>, <<"crl", "delta", "pem">>,
     <<"cert", "crl">>, <<"cert", "delta-crl">>}

SerialPaths ==
    UNION {{<<"cert", x>>, <<"cert", x, "raw">>, <<"cert", x, "raw", "pem">>} : x \in SerialInputs}

Paths == FixedPaths \cup SerialPaths

\* the storage failure one call meets, if any: at the marker read, at
\* fetchCAInfo, at the certificate (or CRL) fetch, at the revocation lookup
Faults == {"none", "marker", "ca_user", "ca_internal", "cert_user", "cert_internal",
           "rev_user", "rev_internal"}

\* strings.HasSuffix(req.Path, "/" + seg)
HasSuffix(path, seg) == Len(path) > 1 /\ path[Len(path)] = seg

\* strings.Contains(req.Path, "delta"), strings.Contains(req.Path, "pem")
ContainsDelta(path) == \E i \in 1..Len(path) : path[i] \in {"delta", "delta-crl"}
ContainsPem(path) == \E i \in 1..Len(path) : path[i] = "pem"

\* data.Get("serial"): the segment the route's pattern captures
SerialField(path) == IF Len(path) >= 2 /\ path[1] = "cert" THEN path[2] ELSE ""

IsCAPath(path) ==
    path \in {<<"ca">>, <<"ca", "pem">>, <<"cert", "ca">>, <<"cert", "ca", "raw">>,
              <<"cert", "ca", "raw", "pem">>}

IsChainPath(path) == path \in {<<"ca_chain">>, <<"cert", "ca_chain">>}

IsCRLPath(path) ==
    path \in {<<"crl">>, <<"crl", "pem">>, <<"crl", "delta">>, <<"crl", "delta", "pem">>,
              <<"cert", "crl">>, <<"cert", "crl", "raw">>, <<"cert", "crl", "raw", "pem">>,
              <<"cert", "delta-crl">>, <<"cert", "delta-crl", "raw">>,
              <<"cert", "delta-crl", "raw", "pem">>}

\* modifiedCtx.reqType of a gated path
\* (variant: the delta CRL paths are checked against the full CRL marker)
ReqTypeIgnoringDelta(path) == IF IsCAPath(path) THEN "ca" ELSE "crl"
ReqType(path) ==
    IF IsCAPath(path) THEN "ca"
    ELSE IF ContainsDelta(path) THEN "delta-crl" ELSE "crl"

\* sendNotModifiedResponseIfNecessary: without an If-Modified-Since header
\* (ims = 0) nothing is read; otherwise the class's marker is read and the
\* answer is "not modified" when the marker is not later than the header's
\* time. (ret, err) is what the call site receives.
sendNotModifiedResponseIfNecessary(reqType, ims, mk, fault) ==
    IF ims = 0 THEN [ret |-> FALSE, err |-> FALSE, reads |-> {}]
    ELSE IF fault = "marker"
    THEN [ret |-> FALSE, err |-> TRUE, reads |-> {<<"marker", reqType>>}]
    ELSE [ret |-> mk[reqType] <= ims, err |-> FALSE, reads |-> {<<"marker", reqType>>}]

\* normalize: separators stripped, hex digits lower-cased
Lower(c) == CASE c = "A" -> "a" [] c = "B" -> "b" [] OTHER -> c

RECURSIVE normalizeSerial(_)
normalizeSerial(b) ==
    IF b = <<>> THEN <<>>
    ELSE IF Head(b) \in {"-", ":"} THEN normalizeSerial(Tail(b))
    ELSE <<Lower(Head(b))>> \o normalizeSerial(Tail(b))

\* the storage key of a serial, or none
KeyOf(serial) ==
    IF serial \in SerialInputs
    THEN {k \in Keys : Bytes(k) = normalizeSerial(InputBytes(serial))}
    ELSE IF serial \in Keys THEN {serial} ELSE {}

Lookup(m, serial) == IF KeyOf(serial) = {} THEN Absent ELSE m[CHOOSE k \in KeyOf(serial) : TRUE]

\* fetchCertBySerial(sc, req.Path, serial): the CRL of the default issuer for
\* the two CRL serials, certs/<serial> otherwise; absent is not an error
fetchCertBySerial(st, serial, fault) ==
    LET read == IF serial \in {"crl", "delta-crl"} THEN <<"crl", serial>>
                ELSE <<"certs", serial>>
        value == IF serial \in {"crl", "delta-crl"} THEN st.crl[serial]
                 ELSE Lookup(st.certs, serial)
    IN  IF fault = "cert_user" THEN [err |-> "user", value |-> Absent, reads |-> {read}]
        ELSE IF fault = "cert_internal" THEN [err |-> "internal", value |-> Absent, reads |-> {read}]
        ELSE [err |-> "", value |-> value, reads |-> {read}]

\* fetchCertBySerial(sc, "revoked/", serial)
fetchRevoked(st, serial, fault) ==
    IF fault = "rev_user" THEN [err |-> "user", value |-> Absent, reads |-> {<<"revoked", serial>>}]
    ELSE IF fault = "rev_internal"
    THEN [err |-> "internal", value |-> Absent, reads |-> {<<"revoked", serial>>}]
    ELSE [err |-> "", value |-> Lookup(st.revoked, serial), reads |-> {<<"revoked", serial>>}]

\* stored revocation records: a full one, a legacy one without the UTC
\* timestamp, and one that does not decode
RevocationValues == {"full", "legacy", "undecodable"}

\* revokedEntry.DecodeJSON(&revInfo)
DecodeJSON(v) ==
    CASE v = "full" -> [ok |-> TRUE, RevocationTime |-> 7, utcIsZero |-> FALSE,
                        utc |-> "1970-01-01T00:00:07Z", CertificateIssuer |-> "issuer-1"]
      [] v = "legacy" -> [ok |-> TRUE, RevocationTime |-> 7, utcIsZero |-> TRUE,
                          utc |-> "", CertificateIssuer |-> "issuer-1"]
      [] OTHER -> [ok |-> FALSE, RevocationTime |-> 0, utcIsZero |-> TRUE,
                   utc |-> "", CertificateIssuer |-> ""]

\* sc.fetchCAInfo(defaultRef, ReadOnlyUsage): a user error when no issuer is
\* configured, the issuer's certificate and chain otherwise
fetchCAInfo(st, fault) ==
    IF fault = "ca_internal" THEN [err |-> "internal", raw |-> <<>>, chain |-> <<>>]
    ELSE IF fault = "ca_user" \/ ~st.issuer.configured
    THEN [err |-> "user", raw |-> <<>>, chain |-> <<>>]
    ELSE [err |-> "", raw |-> <<"derCA">>,
          chain |-> [i \in 1..st.issuer.chain |-> <<"derChain">>]]

\* strings.TrimSpace over a text whose only white space is "\n"
RECURSIVE TrimLeft(_)
TrimLeft(t) == IF t # <<>> /\ Head(t) = "\n" THEN TrimLeft(Tail(t)) ELSE t

RECURSIVE TrimRight(_)
TrimRight(t) ==
    IF t # <<>> /\ t[Len(t)] = "\n" THEN TrimRight(SubSeq(t, 1, Len(t) - 1)) ELSE t

TrimSpace(t) == TrimRight(TrimLeft(t))

\* pem.EncodeToMemory(&pem.Block{Type, Bytes}): header, body, footer, newline
EncodeToMemory(type, der) ==
    <<"-----BEGIN", type, "-----">> \o der \o <<"-----END", type, "-----", "\n">>

\* the chain text: the blocks joined by "\n" onto the text so far, then trimmed
RECURSIVE JoinChain(_, _)
JoinChain(chainStr, rawChain) ==
    IF rawChain = <<>> THEN chainStr
    ELSE JoinChain(chainStr \o <<"\n">> \o TrimSpace(EncodeToMemory("CERTIFICATE", Head(rawChain))),
                   Tail(rawChain))

\* the handler's locals as it starts: response is the empty data response
Locals ==
    [serial |-> "", pemType |-> "", contentType |-> "", certificate |-> <<>>,
     fullChain |-> <<>>, revocationTime |-> 0, revocationIssuerId |-> "",
     revocationTimeRfc3339 |-> "", response |-> "data", errMsg |-> "",
     retErr |-> FALSE, notModified |-> FALSE, reads |-> {}]

\* if err != nil || ret { retErr = err; goto reply }
\* (variant: the gate error is dropped and resolution goes on)
GateExitsWhenNotModified(gate) == gate.ret
GateExits(gate) == gate.err \/ gate.ret

\* the switch on req.Path: the gate for the CA and CRL classes, then serial,
\* pemType and contentType; goto is TRUE when the gate sent the call to reply
Dispatch(req, st, fault) ==
    LET path == req.path
        gate == sendNotModifiedResponseIfNecessary(ReqType(path), req.ims, st.markers, fault)
        gated == [Locals EXCEPT !.retErr = gate.err, !.notModified = gate.ret,
                                !.reads = gate.reads]
        l0 == [Locals EXCEPT !.reads = gate.reads]
    IN  IF IsCAPath(path)
        THEN IF GateExits(gate) THEN [goto |-> TRUE, l |-> gated]
             ELSE [goto |-> FALSE,
                   l |-> IF path \in {<<"ca", "pem">>, <<"cert", "ca", "raw", "pem">>}
                         THEN [l0 EXCEPT !.serial = "ca", !.pemType = "CERTIFICATE",
                                         !.contentType = "application/pem-certificate-chain"]
                         ELSE IF path = <<"cert", "ca">>
                         THEN [l0 EXCEPT !.serial = "ca", !.pemType = "CERTIFICATE",
                                         !.contentType = ""]
                         ELSE [l0 EXCEPT !.serial = "ca",
                                         !.contentType = "application/pkix-cert"]]
        ELSE IF IsChainPath(path)
        THEN [goto |-> FALSE,
              l |-> IF path = <<"ca_chain">>
                    THEN [Locals EXCEPT !.serial = "ca_chain",
                                        !.contentType = "application/pkix-cert"]
                    ELSE [Locals EXCEPT !.serial = "ca_chain"]]
        ELSE IF IsCRLPath(path)
        THEN IF GateExits(gate) THEN [goto |-> TRUE, l |-> gated]
             ELSE LET serial == IF ContainsDelta(path) THEN "delta-crl" ELSE "crl"
                  IN  [goto |-> FALSE,
                       l |-> IF ContainsPem(path)
                             THEN [l0 EXCEPT !.serial = serial, !.pemType = "X509 CRL",
                                             !.contentType = "application/x-pem-file"]
                             ELSE IF path \in {<<"cert", "crl">>, <<"cert", "delta-crl">>}
                             THEN [l0 EXCEPT !.serial = serial, !.pemType = "X509 CRL",
                                             !.contentType = ""]
                             ELSE [l0 EXCEPT !.serial = serial,
                                             !.contentType = "application/pkix-crl"]]
        ELSE IF HasSuffix(path, "pem") \/ HasSuffix(path, "raw")
        THEN [goto |-> FALSE,
              l |-> IF HasSuffix(path, "pem")
                    THEN [Locals EXCEPT !.serial = SerialField(path), !.pemType = "CERTIFICATE",
                                        !.contentType = "application/pem-certificate-chain"]
                    ELSE [Locals EXCEPT !.serial = SerialField(path),
                                        !.contentType = "application/pkix-cert"]]
        ELSE [goto |-> FALSE,
              l |-> [Locals EXCEPT !.serial = SerialField(path), !.pemType = "CERTIFICATE"]]

\* "Prefer fetchCAInfo to fetchCertBySerial for CA certificates."
\* (variant: only the chain is taken from fetchCAInfo)
PrefersCAInfoChainOnly(serial) == serial = "ca_chain"
PrefersCAInfo(serial) == serial = "ca_chain" \/ serial = "ca"

\* the CA block: the issuer's chain or certificate, PEM when pemType is set
FetchCA(l, st, fault) ==
    LET caInfo == fetchCAInfo(st, fault)
        l1 == [l EXCEPT !.reads = l.reads \cup {<<"issuer", "default">>}]
    IN  IF caInfo.err = "user"
        THEN [l1 EXCEPT !.response = "error", !.errMsg = "fetchCAInfo"]
        ELSE IF caInfo.err # "" THEN [l1 EXCEPT !.retErr = TRUE]
        ELSE IF l.serial = "ca_chain"
        THEN LET chain == TrimSpace(JoinChain(<<>>, caInfo.chain))
             IN  [l1 EXCEPT !.fullChain = chain, !.certificate = chain]
        ELSE IF l.pemType # ""
        THEN [l1 EXCEPT !.certificate = TrimSpace(EncodeToMemory(l.pemType, caInfo.raw))]
        ELSE [l1 EXCEPT !.certificate = caInfo.raw]

\* certEntry == nil: the response is nil and the call goes to reply
\* (variant: an absent certificate is reported as an internal error)
AbsentCertIsInternalError(l) == [goto |-> TRUE, l |-> [l EXCEPT !.retErr = TRUE]]
AbsentCert(l) == [goto |-> TRUE, l |-> [l EXCEPT !.response = "nil"]]

\* the certificate fetch: goto is TRUE when the call goes to reply from here
FetchCert(l, st, fault) ==
    LET got == fetchCertBySerial(st, l.serial, fault)
        l1 == [l EXCEPT !.reads = l.reads \cup got.reads]
    IN  IF got.err = "user"
        THEN [goto |-> TRUE, l |-> [l1 EXCEPT !.response = "error", !.errMsg = "fetchCertBySerial"]]
        ELSE IF got.err # "" THEN [goto |-> TRUE, l |-> [l1 EXCEPT !.retErr = TRUE]]
        ELSE IF got.value = Absent THEN AbsentCert(l1)
        ELSE [goto |-> FALSE,
              l |-> IF l.pemType # ""
                    THEN [l1 EXCEPT !.certificate = TrimSpace(EncodeToMemory(l.pemType, <<got.value>>))]
                    ELSE [l1 EXCEPT !.certificate = <<got.value>>]]

\* return logical.ErrorResponse(...), nil
ErrorReturn(msg, reads) ==
    [NoResponse EXCEPT !.kind = "error", !.errMsg = msg, !.reads = reads]

\* the locals after a revocation record decoded
\* (variant: the issuer of the revocation is not copied)
RevocationFieldsWithoutIssuer(l, revInfo) ==
    [l EXCEPT !.revocationTime = revInfo.RevocationTime,
              !.revocationTimeRfc3339 = IF revInfo.utcIsZero THEN "" ELSE revInfo.utc]
RevocationFields(l, revInfo) ==
    [l EXCEPT !.revocationTime = revInfo.RevocationTime,
              !.revocationIssuerId = revInfo.CertificateIssuer,
              !.revocationTimeRfc3339 = IF revInfo.utcIsZero THEN "" ELSE revInfo.utc]

\* the revocation lookup: returned is TRUE when the handler returns from
\* here (a record that does not decode), without passing through reply
Revocation(l, st, fault) ==
    LET got == fetchRevoked(st, l.serial, fault)
        l1 == [l EXCEPT !.reads = l.reads \cup got.reads]
    IN  IF got.err = "user"
        THEN [returned |-> FALSE, result |-> NoResponse,
              l |-> [l1 EXCEPT !.response = "error", !.errMsg = "fetchCertBySerial"]]
        ELSE IF got.err # ""
        THEN [returned |-> FALSE, result |-> NoResponse, l |-> [l1 EXCEPT !.retErr = TRUE]]
        ELSE IF got.value = Absent
        THEN [returned |-> FALSE, result |-> NoResponse, l |-> l1]
        ELSE LET revInfo == DecodeJSON(got.value)
             IN  IF ~revInfo.ok
                 THEN [returned |-> TRUE, result |-> ErrorReturn("decode", l1.reads), l |-> l1]
                 ELSE [returned |-> FALSE, result |-> NoResponse,
                       l |-> RevocationFields(l1, revInfo)]

\* reply: the raw response when a content type is set, else the error, the
\* nil response, the error response or the structured response
Reply(l) ==
    IF l.contentType # ""
    THEN [NoResponse EXCEPT !.kind = "raw", !.contentType = l.contentType,
                            !.body = l.certificate,
                            !.status = IF Len(l.certificate) > 0 THEN 200 ELSE 204,
                            !.reads = l.reads]
    ELSE IF l.retErr THEN [NoResponse EXCEPT !.kind = "nil", !.err = TRUE, !.reads = l.reads]
    ELSE IF l.response = "nil" THEN [NoResponse EXCEPT !.kind = "nil", !.reads = l.reads]
    ELSE IF l.response = "error"
    THEN [NoResponse EXCEPT !.kind = "error", !.errMsg = l.errMsg, !.reads = l.reads]
    ELSE [NoResponse EXCEPT !.kind = "json",
                            !.status = IF l.notModified THEN 304 ELSE 0,
                            !.notModified = l.notModified,
                            !.certificate = l.certificate,
                            !.revocation_time = l.revocationTime,
                            !.revocation_time_rfc3339 = l.revocationTimeRfc3339,
                            !.issuer_id = l.revocationIssuerId,
                            !.ca_chain = l.fullChain,
                            !.reads = l.reads]

\* pathFetchRead on request req over storage st, meeting storage failure fault
pathFetchRead(req, st, fault) ==
    LET d == Dispatch(req, st, fault)
    IN  IF d.goto THEN Reply(d.l)
        ELSE IF d.l.serial = ""
        THEN Reply([d.l EXCEPT !.response = "error", !.errMsg = "serial required"])
        ELSE IF PrefersCAInfo(d.l.serial) THEN Reply(FetchCA(d.l, st, fault))
        ELSE LET c == FetchCert(d.l, st, fault)
             IN  IF c.goto THEN Reply(c.l)
                 ELSE LET r == Revocation(c.l, st, fault)
                      IN  IF r.returned THEN r.result ELSE Reply(r.l)

Storage == [certs |-> certs, revoked |-> revoked, markers |-> markers,
            issuer |-> issuer, crl |-> crl]

\* the failures a request can meet: the marker read exists only behind an
\* If-Modified-Since header on a gated path, fetchCAInfo only on the CA and
\* chain paths, the certificate fetch and revocation lookup on the others
CanMeet(fault, path, ims) ==
    CASE fault = "none" -> TRUE
      [] fault = "marker" -> ims # 0 /\ (IsCAPath(path) \/ IsCRLPath(path))
      [] fault \in {"ca_user", "ca_internal"} -> IsCAPath(path) \/ IsChainPath(path)
      [] OTHER -> ~(IsCAPath(path) \/ IsChainPath(path))

\* one read request is served
FetchRead ==
    /\ rdResult.kind = "none"
    /\ \E path \in Paths, ims \in 0..MaxTime, fault \in Faults :
        /\ CanMeet(fault, path, ims)
        /\ rdReq' = [path |-> path, ims |-> ims]
        /\ rdFault' = fault
        /\ rdResult' = pathFetchRead([path |-> path, ims |-> ims], Storage, fault)
    /\ UNCHANGED <<storeVars, pgVars, ldVars>>

\* The rest of the engine, before the request arrives: a certificate is
\* issued, entries keyed "ca" appear under certs/ and revoked/, a certificate
\* is revoked (or its record is damaged), the issuer is configured, the CRLs
\* are built, a marker advances.
IssueCert ==
    /\ rdResult.kind = "none"
    /\ certs["1a2b"] = Absent
    /\ certs' = [certs EXCEPT !["1a2b"] = "derA"]
    /\ UNCHANGED <<revoked, markers, issuer, crl, pgVars, ldVars, rdVars>>

StoreCAKeyed ==
    /\ rdResult.kind = "none"
    /\ certs["ca"] = Absent
    /\ certs' = [certs EXCEPT !["ca"] = "derB"]
    /\ revoked' = [revoked EXCEPT !["ca"] = "full"]
    /\ UNCHANGED <<markers, issuer, crl, pgVars, ldVars, rdVars>>

Revoke ==
    /\ rdResult.kind = "none"
    /\ revoked["1a2b"] = Absent
    /\ \E v \in RevocationValues : revoked' = [revoked EXCEPT !["1a2b"] = v]
    /\ UNCHANGED <<certs, markers, issuer, crl, pgVars, ldVars, rdVars>>

ConfigureIssuer ==
    /\ rdResult.kind = "none"
    /\ ~issuer.configured
    /\ \E n \in 0..MaxChain : issuer' = [configured |-> TRUE, chain |-> n]
    /\ UNCHANGED <<certs, revoked, markers, crl, pgVars, ldVars, rdVars>>

BuildCRL ==
    /\ rdResult.kind = "none"
    /\ \E c \in {"crl", "delta-crl"} :
        /\ crl[c] = Absent
        /\ c = "delta-crl" => crl["crl"] # Absent
        /\ crl' = [crl EXCEPT ![c] = "derCRL"]
    /\ UNCHANGED <<certs, revoked, markers, issuer, pgVars, ldVars, rdVars>>

\* a resource class is regenerated: its marker moves forward
Regenerate ==
    /\ rdResult.kind = "none"
    /\ \E c \in Classes :
        /\ markers[c] < MaxTime
        /\ markers' = [markers EXCEPT ![c] = markers[c] + 1]
    /\ UNCHANGED <<certs, revoked, issuer, crl, pgVars, ldVars, rdVars>>

Init ==
    /\ certs = NoCerts
    /\ StoreEmpty
    /\ PgIdle
    /\ LdIdle
    /\ RdIdle

Next ==
    \/ IssueCert \/ StoreCAKeyed \/ Revoke \/ ConfigureIssuer \/ BuildCRL \/ Regenerate
    \/ FetchRead

Spec == Init /\ [][Next]_vars

\* ------------------------------------------------- claims on pathFetchRead

Served == rdResult.kind # "none"

RawPaths ==
    {<<"ca">>, <<"ca", "pem">>, <<"cert", "ca", "raw">>, <<"cert", "ca", "raw", "pem">>,
     <<"ca_chain">>, <<"crl">>, <<"crl", "pem">>, <<"crl", "delta">>, <<"crl", "delta", "pem">>}
    \cup UNION {{<<"cert", x, "raw">>, <<"cert", x, "raw", "pem">>} : x \in SerialInputs}

StructuredSerialPaths == {<<"cert", x>> : x \in SerialInputs}

\* the response without the record of the reads that produced it
Answer(r) == [r EXCEPT !.reads = {}]

\* C2: a read on a raw path that is not answered "not modified" returns no
\* error and a raw response (content type, body, status), whatever the
\* storage did; the status is 200 with a body and 204 without.
C2_RawPathsAnswerRaw ==
    (Served /\ rdReq.path \in RawPaths /\ ~rdResult.notModified) =>
        /\ ~rdResult.err
        /\ rdResult.kind = "raw"
        /\ rdResult.contentType # ""
        /\ rdResult.status = IF rdResult.body # <<>> THEN 200 ELSE 204

OwnClass(path) ==
    IF path \in {<<"crl", "delta">>, <<"crl", "delta", "pem">>, <<"cert", "delta-crl">>}
    THEN "delta-crl"
    ELSE IF path \in {<<"crl">>, <<"crl", "pem">>, <<"cert", "crl">>} THEN "crl" ELSE "ca"

GatedPaths ==
    {<<"ca">>, <<"ca", "pem">>, <<"cert", "ca">>, <<"cert", "ca", "raw">>,
     <<"cert", "ca", "raw", "pem">>, <<"crl">>, <<"crl", "pem">>, <<"crl", "delta">>,
     <<"crl", "delta", "pem">>, <<"cert", "crl">>, <<"cert", "delta-crl">>}

\* C4: on a CA, CRL or delta-CRL path, with T the marker of the path's own
\* class: an If-Modified-Since of T or later is answered "not modified" and
\* reads nothing but that marker; an If-Modified-Since before T, or none,
\* resolves the resource as the request without the header does, so a
\* resource regenerated after the caller's time is never "not modified".
C4_ConditionalGate ==
    (Served /\ rdReq.path \in GatedPaths /\ rdFault # "marker") =>
        LET T == markers[OwnClass(rdReq.path)]
        IN  IF rdReq.ims # 0 /\ T <= rdReq.ims
            THEN /\ rdResult.notModified
                 /\ rdResult.status = 304
                 /\ rdResult.body = <<>> /\ rdResult.certificate = <<>>
                 /\ rdResult.reads = {<<"marker", OwnClass(rdReq.path)>>}
            ELSE /\ ~rdResult.notModified
                 /\ rdResult.status # 304
                 /\ Answer(rdResult)
                      = Answer(pathFetchRead([rdReq EXCEPT !.ims = 0], Storage, rdFault))
                 /\ \E r \in rdResult.reads : r[1] \in {"issuer", "crl"}
                 /\ (rdFault = "none" /\ rdReq.path = <<"ca">> /\ issuer.configured)
                        => rdResult.body = <<"derCA">>
                 /\ (rdFault = "none" /\ rdReq.path = <<"crl", "delta">>
                        /\ crl["delta-crl"] # Absent) => rdResult.body = <<"derCRL">>

\* the delta CRL was regenerated after the caller's time, the full CRL was
\* not: the delta CRL is served in full
C4_Witness ==
    /\ Served /\ rdFault = "none"
    /\ rdReq.path = <<"crl", "delta">> /\ rdReq.ims = 1
    /\ markers["crl"] = 1 /\ markers["delta-crl"] = 2
    /\ rdResult.kind = "raw" /\ rdResult.status = 200

\* the certificate field of a structured response for stored value v
PemOf(v) == <<"-----BEGIN", "CERTIFICATE", "-----", v, "-----END", "CERTIFICATE", "-----">>

StoredCert == Lookup(certs, SerialField(rdReq.path))
StoredRevocation == Lookup(revoked, SerialField(rdReq.path))

\* C5 as stated: a stored certificate fetched on cert/<serial> is returned
\* whether or not a revocation entry exists, with a non-zero revocation_time
\* and an issuer_id exactly when one exists.
C5_RevocationExactlyWhenEntry ==
    (Served /\ rdReq.path \in StructuredSerialPaths /\ StoredCert # Absent
            /\ rdFault = "none") =>
        /\ rdResult.kind = "json"
        /\ rdResult.certificate = PemOf(StoredCert)
        /\ (rdResult.revocation_time # 0 /\ rdResult.issuer_id # "")
              <=> StoredRevocation # Absent
        /\ StoredRevocation = Absent =>
              rdResult.revocation_time = 0 /\ rdResult.issuer_id = ""

\* C5, amended: the same when the stored revocation entry decodes; one that
\* does not decode is answered with an error response and no certificate.
C5_RevocationExactlyWhenDecodedEntry ==
    (Served /\ rdReq.path \in StructuredSerialPaths /\ StoredCert # Absent
            /\ rdFault = "none") =>
        IF StoredRevocation = "undecodable"
        THEN rdResult.kind = "error" /\ ~rdResult.err /\ rdResult.certificate = <<>>
        ELSE /\ rdResult.kind = "json"
             /\ rdResult.certificate = PemOf(StoredCert)
             /\ (rdResult.revocation_time # 0 /\ rdResult.issuer_id # "")
                   <=> StoredRevocation # Absent
             /\ StoredRevocation = Absent =>
                   rdResult.revocation_time = 0 /\ rdResult.issuer_id = ""
             /\ StoredRevocation # Absent =>
                   /\ rdResult.revocation_time = DecodeJSON(StoredRevocation).RevocationTime
                   /\ rdResult.issuer_id = DecodeJSON(StoredRevocation).CertificateIssuer

\* a revoked certificate was fetched: its bytes and its revocation came back
C5_Witness ==
    /\ Served /\ rdFault = "none"
    /\ rdReq.path = <<"cert", "1A:2B">>
    /\ certs["1a2b"] = "derA" /\ revoked["1a2b"] = "legacy"
    /\ rdResult.kind = "json" /\ rdResult.certificate = PemOf("derA")
    /\ rdResult.revocation_time = 7 /\ rdResult.issuer_id = "issuer-1"
    /\ rdResult.revocation_time_rfc3339 = ""

\* C6: a serial with no stored certificate, the fetch reporting it absent,
\* is answered without error: the nil response on cert/<serial>, an empty
\* raw body with status 204 on the raw paths; revoked/ is not read.
C6_AbsentSerialIsEmpty ==
    (Served /\ rdReq.path \in SerialPaths /\ StoredCert = Absent
            /\ rdFault \notin {"cert_user", "cert_internal"}) =>
        /\ ~rdResult.err
        /\ rdReq.path \in StructuredSerialPaths => rdResult.kind = "nil"
        /\ rdReq.path \notin StructuredSerialPaths =>
              rdResult.kind = "raw" /\ rdResult.body = <<>> /\ rdResult.status = 204
        /\ \A r \in rdResult.reads : r[1] # "revoked"
        /\ <<"certs", SerialField(rdReq.path)>> \in rdResult.reads

\* a serial that is revoked but has no certificate was fetched on cert/<serial>
C6_Witness ==
    /\ Served /\ rdReq.path = <<"cert", "1A:2B">>
    /\ certs["1a2b"] = Absent /\ revoked["1a2b"] = "full"
    /\ rdResult.kind = "nil" /\ ~rdResult.err

CAPaths ==
    {<<"ca">>, <<"ca", "pem">>, <<"cert", "ca">>, <<"cert", "ca", "raw">>,
     <<"cert", "ca", "raw", "pem">>, <<"ca_chain">>, <<"cert", "ca_chain">>}

\* C10: on the CA and chain paths neither certs/ nor revoked/ is read, the
\* structured response carries revocation_time 0, an empty
\* revocation_time_rfc3339 and no issuer_id, and what is served is the
\* configured issuer's, also when entries keyed "ca" are stored.
C10_CAFromIssuerOnly ==
    (Served /\ rdReq.path \in CAPaths) =>
        /\ \A r \in rdResult.reads : r[1] \notin {"certs", "revoked"}
        /\ rdResult.kind = "json" =>
              /\ rdResult.revocation_time = 0
              /\ rdResult.revocation_time_rfc3339 = ""
              /\ rdResult.issuer_id = ""
        /\ (rdFault = "none" /\ issuer.configured /\ ~rdResult.notModified) =>
              /\ <<"issuer", "default">> \in rdResult.reads
              /\ rdReq.path = <<"ca">> => rdResult.body = <<"derCA">>
              /\ rdReq.path = <<"cert", "ca">> =>
                    rdResult.certificate = PemOf("derCA")

\* cert/ca was read while entries keyed "ca" were stored under certs/ and revoked/
C10_Witness ==
    /\ Served /\ rdFault = "none" /\ rdReq.path = <<"cert", "ca">>
    /\ certs["ca"] # Absent /\ revoked["ca"] # Absent
    /\ issuer.configured
    /\ rdResult.kind = "json" /\ rdResult.certificate = PemOf("derCA")

====
